---------------------------- MODULE Spec2Model ----------------------------
(***************************************************************************)
(* Model of superset/tasks/schedules.py: the cron window expander          *)
(* (next_schedules), the scheduler driver (schedule_window) and the        *)
(* delivery job (schedule_email_report and what it calls).                 *)
(*                                                                         *)
(* Instants are integers counting ticks; TicksPerSecond ticks make one     *)
(* second, so that a datetime that does not fall on a whole second (a      *)
(* datetime carries microseconds) is representable.  An instant is         *)
(* measured from the midnight that opens the reference day.                *)
(***************************************************************************)
EXTENDS Integers, Sequences, FiniteSets, TLC

\* ------------------------------------------------------------------ bounds
TicksPerSecond == 2
\* longest window, in hours, that a call of next_schedules is given
WindowHours == 3
\* most addresses in a recipient string
MaxRecipients == 3
\* schedule records in the store
MaxSchedules == 3
\* calls of schedule_window in one behaviour
MaxCalls == 2
\* invocations of schedule_hourly in one behaviour
MaxHourlyRuns == 2

\* --------------------------------------------------------------- constants
\* timedelta(seconds=1): the backdating of the croniter seed
SeedBackdateSeconds == 1
\* timedelta(days=1): the distance of the sentinel `previous` from start_at
SentinelSeconds == 86400

\* @retry(SlackApiError, delay=10, backoff=2, tries=5)
SlackTries == 5
SlackDelay == 10
SlackBackoff == 2
\* retry_call(get_element, ..., tries=2, ...)
FindElementTries == 2
\* retry_call(driver.close, tries=2)
CloseTries == 2

Seconds(n) == n * TicksPerSecond

Min(S) == CHOOSE x \in S : \A y \in S : x <= y

\* ------------------------------------------------------------ croniter
\* A crontab is modelled by what croniter computes from it: the expression
\* fires at the instants congruent to one of `offs` modulo `mod` seconds.
Crontabs ==
    { [expr |-> "* * * * *",    mod |-> 60,    offs |-> {0}],
      [expr |-> "*/15 * * * *", mod |-> 3600,  offs |-> {0, 900, 1800, 2700}],
      [expr |-> "0 * * * *",    mod |-> 3600,  offs |-> {0}],
      [expr |-> "30 * * * *",   mod |-> 3600,  offs |-> {1800}],
      [expr |-> "0,10 * * * *", mod |-> 3600,  offs |-> {0, 600}],
      [expr |-> "0 0 * * *",    mod |-> 86400, offs |-> {0}] }

\* whether the cron expression fires at instant t
CronFiresAt(c, t) ==
    /\ t % TicksPerSecond = 0
    /\ ((t \div TicksPerSecond) % c.mod) \in c.offs

\* croniter.get_next: the first instant strictly after t at which c fires
GetNext(c, t) ==
    LET m     == Seconds(c.mod)
        base  == (t \div m) * m
        cands == {base + Seconds(o) : o \in c.offs}
                    \cup {base + m + Seconds(o) : o \in c.offs}
    IN  Min({x \in cands : x > t})

\* croniter.croniter(crontab, start_at - timedelta(seconds=1))
CronSeedNoBackdate(start) == start

CronSeed(start) == start - Seconds(SeedBackdateSeconds)

\* previous = start_at - timedelta(days=1)
Sentinel(start) == start - Seconds(SentinelSeconds)

\* ------------------------------------------------------- next_schedules
\* The body of the for loop, for one candidate eta: what the loop does.
LoopBodyBreakLate(eta, start, stop, previous, res) ==
    IF eta > stop THEN "break"
    ELSE IF eta < start THEN "skip_early"
    ELSE IF eta - previous < Seconds(res) THEN "skip_frequent"
    ELSE "yield"

LoopBodyNoDebounce(eta, start, stop, previous, res) ==
    IF eta >= stop THEN "break"
    ELSE IF eta < start THEN "skip_early"
    ELSE "yield"

LoopBody(eta, start, stop, previous, res) ==
    IF eta >= stop THEN "break"
    ELSE IF eta < start THEN "skip_early"
    ELSE IF eta - previous < Seconds(res) THEN "skip_frequent"
    ELSE "yield"

\* `previous = eta` follows the yield only: what `previous` is after the
\* loop body has handled the candidate eta
NextPreviousAlways(out, eta, previous) == eta

NextPrevious(out, eta, previous) == IF out = "yield" THEN eta ELSE previous

\* The whole generator, run to exhaustion: the sequence it yields.
RECURSIVE NsRun(_, _, _, _, _, _, _)
NsRun(c, cur, start, stop, previous, res, acc) ==
    LET eta == GetNext(c, cur)
        out == LoopBody(eta, start, stop, previous, res)
    IN  IF out = "break" THEN acc
        ELSE NsRun(c, eta, start, stop, NextPrevious(out, eta, previous), res,
                   IF out = "yield" THEN Append(acc, eta) ELSE acc)

NextSchedules(c, start, stop, res) ==
    NsRun(c, CronSeed(start), start, stop, Sentinel(start), res, <<>>)

\* ------------------------------------------------------------------ state
VARIABLES
    crontab,      \* next_schedules: its arguments
    start_at,
    stop_at,
    resolution,
    crons_cur,    \* the croniter's current instant
    previous,     \* the last yielded instant, or the sentinel
    yielded,      \* the instants yielded so far, in order
    ns_pc         \* "running" | "done"

ns_vars == <<crontab, start_at, stop_at, resolution, crons_cur, previous,
             yielded, ns_pc>>

\* next_schedules not called: the generator's variables at rest
NsIdle ==
    /\ crontab = CHOOSE c \in Crontabs : c.expr = "0 * * * *"
    /\ start_at = 0
    /\ stop_at = 0
    /\ resolution = 0
    /\ crons_cur = CronSeed(0)
    /\ previous = Sentinel(0)
    /\ yielded = <<>>
    /\ ns_pc = "done"


\* ----------------------------------------------------------- strings
\* A string is modelled as the sequence of its tokens: an address is one
\* token, a separator is one token.  None and the empty string are both
\* the empty sequence: the code only tests them with `or` and `if`.
Address(i) == "user" \o ToString(i) \o "@example.org"

\* "user1@example.org, user2@example.org, ..." with n addresses
RECURSIVE RecipientString(_)
RecipientString(n) ==
    IF n = 0 THEN <<>>
    ELSE IF n = 1 THEN <<Address(1)>>
    ELSE RecipientString(n - 1) \o <<",", " ", Address(n)>>

\* get_email_address_list: split at the commas, strip the blanks, drop what
\* is left empty
RECURSIVE SplitAddresses(_, _, _)
SplitAddresses(str, cur, acc) ==
    IF str = <<>>
    THEN IF cur = "" THEN acc ELSE Append(acc, <<cur>>)
    ELSE LET tok == Head(str) IN
         IF tok = ","
         THEN SplitAddresses(Tail(str), "",
                             IF cur = "" THEN acc ELSE Append(acc, <<cur>>))
         ELSE IF tok = " "
         THEN SplitAddresses(Tail(str), cur, acc)
         ELSE SplitAddresses(Tail(str), cur \o tok, acc)

get_email_address_list(str) == SplitAddresses(str, "", <<>>)

\* config["EMAIL_REPORT_BCC_ADDRESS"]
BccAddress == <<"bcc@example.org">>

\* _get_email_to_and_bcc: the (to, bcc) pairs, in the order they are yielded
GetEmailToAndBcc(rcpt, deliver_as_group) ==
    IF deliver_as_group
    THEN << [to |-> rcpt, bcc |-> BccAddress] >>
    ELSE LET l == get_email_address_list(rcpt)
         IN  [i \in 1..Len(l) |-> [to |-> l[i], bcc |-> BccAddress]]

\* ----------------------------------------------------- report content
NoContent ==
    [body |-> "none", data |-> "none", images |-> "none",
     slack_message |-> "none", slack_attachment |-> "none"]

\* _generate_report_content(delivery_type, screenshot, name, url)
GenerateReportContentBoth(delivery_type, screenshot) ==
    [body |-> "link+img", data |-> "screenshot.png", images |-> "msgid",
     slack_message |-> "name+link", slack_attachment |-> screenshot]

GenerateReportContent(delivery_type, screenshot) ==
    IF delivery_type = "attachment"
    THEN [body |-> "link", data |-> "screenshot.png", images |-> "none",
          slack_message |-> "name+link", slack_attachment |-> screenshot]
    ELSE [body |-> "link+img", data |-> "none", images |-> "msgid",
          slack_message |-> "name+link", slack_attachment |-> screenshot]

\* _get_slice_data, after the fetch: ReportContent(body, data, None, ...)
SliceDataContent(delivery_type) ==
    IF delivery_type = "inline"
    THEN [body |-> "table", data |-> "none", images |-> "none",
          slack_message |-> "name+link", slack_attachment |-> "csv"]
    ELSE [body |-> "link", data |-> "name.csv", images |-> "none",
          slack_message |-> "name+link", slack_attachment |-> "csv"]

\* ------------------------------------------------------ retry policies
\* retry: after a failed try `_tries -= 1; if not _tries: raise`
RetryGivesUpLate(tries_left) == tries_left < 0

RetryGivesUp(tries_left) == tries_left = 0

\* get_scheduler_model(report_type): the model class, or None
get_scheduler_model(report_type) ==
    IF report_type \in {"dashboard", "slice"} THEN report_type ELSE "None"

\* schedule_email_report: `if not schedule or not schedule.active`
IsIgnoredOnlyMissing(present, active) == ~present

IsIgnored(present, active) == ~present \/ ~active

\* ------------------------------------------------------- the delivery job
VARIABLES
    sched_present,   \* the store holds the schedule the job names
    sched_active,    \* its active flag
    enq_active,      \* the schedule was present and active at enqueue time
    schedule,        \* its other columns
    args,            \* the job's arguments: recipients, slack_channel
    job_pc,
    job_error,       \* the exception that left the job, "" for none
    time_limit,      \* SoftTimeLimitExceeded has been raised in the job
    recipients,      \* resolved at lines 495-496
    slack_channel,
    drivers_created, \* driver_class(**kwargs) returned
    driver_returned, \* create_webdriver returned the driver
    destroy_calls,   \* calls of destroy_webdriver
    close_calls,     \* calls of driver.close
    quit_calls,      \* calls of driver.quit
    find_calls,      \* calls of find_element_by_class_name
    find_sleeps,     \* retry_call's sleeps between the tries of the lookup
    swallowed,       \* what destroy_webdriver caught and passed over
    pending,         \* the exception in flight while `finally` runs
    screenshot,
    report_content,
    email_sends,     \* calls of send_email_smtp: to, bcc, and how each ended
    slack_uploads,   \* calls of files_upload: how each ended
    slack_tries,     \* retry's _tries
    slack_delay,     \* retry's _delay
    slack_sleeps     \* retry's time.sleep calls

job_vars == <<sched_present, sched_active, enq_active, schedule, args, job_pc,
              job_error, time_limit, recipients, slack_channel, drivers_created,
              driver_returned, destroy_calls, close_calls, quit_calls,
              find_calls, find_sleeps, swallowed, pending, screenshot, report_content, email_sends,
              slack_uploads, slack_tries, slack_delay, slack_sleeps>>

store_vars == <<sched_present, sched_active, enq_active, schedule, args>>
resolved_vars == <<recipients, slack_channel>>
render_vars == <<drivers_created, driver_returned, destroy_calls, close_calls,
                 quit_calls, find_calls, find_sleeps, swallowed, pending,
                 screenshot>>
deliver_vars == <<email_sends, slack_uploads, slack_tries, slack_delay,
                  slack_sleeps>>

\* ------------------------------------------------------ schedule_window
VARIABLES
    db,        \* the schedule records of the store, by id
    queue,     \* the jobs apply_async has enqueued, in order
    sw_call,   \* the last call of schedule_window: its arguments, the store
               \* it read (<<>>: it made no query) and the queue's length
               \* before it
    sw_calls,  \* calls made so far
    config,    \* app.config: ENABLE_SCHEDULED_EMAIL_REPORTS and
               \* EMAIL_REPORTS_CRON_RESOLUTION
    hourly_runs \* the invocations of schedule_hourly so far: the clock, the
               \* store each read and the part of the queue each filled

hourly_vars == <<config, hourly_runs>>

sw_vars == <<db, queue, sw_call, sw_calls, hourly_vars>>

vars == <<ns_vars, job_vars, sw_vars>>

Targets ==
    { [report_type |-> "dashboard", email_format |-> "visualization"],
      [report_type |-> "slice", email_format |-> "visualization"],
      [report_type |-> "slice", email_format |-> "data"],
      [report_type |-> "slice", email_format |-> "other"],
      [report_type |-> "alert", email_format |-> "visualization"] }

Schedules ==
    { [report_type |-> t.report_type, email_format |-> t.email_format,
       delivery_type |-> d, deliver_as_group |-> g,
       recipients |-> RecipientString(n), slack_channel |-> c] :
      t \in Targets, d \in {"attachment", "inline"}, g \in BOOLEAN,
      n \in 0..MaxRecipients, c \in {"", "#reports"} }

JobArgs ==
    { [recipients |-> r, slack_channel |-> c] :
      r \in {<<>>, <<"override@example.org">>}, c \in {"", "#override"} }

JobRest ==
    /\ job_error = ""
    /\ time_limit = FALSE
    /\ recipients = <<>>
    /\ slack_channel = ""
    /\ drivers_created = 0
    /\ driver_returned = FALSE
    /\ destroy_calls = 0
    /\ close_calls = 0
    /\ quit_calls = 0
    /\ find_calls = 0
    /\ find_sleeps = <<>>
    /\ swallowed = <<>>
    /\ pending = ""
    /\ screenshot = "none"
    /\ report_content = NoContent
    /\ email_sends = <<>>
    /\ slack_uploads = <<>>
    /\ slack_tries = SlackTries
    /\ slack_delay = SlackDelay
    /\ slack_sleeps = <<>>

\* no job: the job's variables at rest
JobIdle ==
    /\ sched_present = FALSE
    /\ sched_active = FALSE
    /\ enq_active = FALSE
    /\ schedule = CHOOSE s \in Schedules : TRUE
    /\ args = CHOOSE a \in JobArgs : TRUE
    /\ job_pc = "returned"
    /\ JobRest

\* schedule_email_report.apply_async(...) has put the job in the queue
JobInit ==
    /\ sched_present \in BOOLEAN
    /\ sched_active \in BOOLEAN
    /\ enq_active = (sched_present /\ sched_active)
    /\ schedule \in Schedules
    /\ args \in JobArgs
    /\ job_pc = "queued"
    /\ JobRest

\* ------------------------------------------------ inputs of next_schedules
StartInstants ==
    {0, 1, Seconds(1800), Seconds(3600), Seconds(3600) + 1}

WindowLengths ==
    {Seconds(-3600), -1, 0, 1, Seconds(600), Seconds(3600)}
        \cup {Seconds(3600 * WindowHours)}

Resolutions == {-60, 0, 60, 900, 7200, 86400, 86401, 90000}

NsInit ==
    /\ crontab \in Crontabs
    /\ start_at \in StartInstants
    /\ \E len \in WindowLengths : stop_at = start_at + len
    /\ resolution \in Resolutions
    /\ crons_cur = CronSeed(start_at)
    /\ previous = Sentinel(start_at)
    /\ yielded = <<>>
    /\ ns_pc = "running"

NsOutcome == LoopBody(GetNext(crontab, crons_cur), start_at, stop_at,
                      previous, resolution)

\* eta >= stop_at: break
NsBreak ==
    /\ ns_pc = "running"
    /\ NsOutcome = "break"
    /\ crons_cur' = GetNext(crontab, crons_cur)
    /\ ns_pc' = "done"
    /\ UNCHANGED <<crontab, start_at, stop_at, resolution, previous, yielded>>
    /\ UNCHANGED <<job_vars, sw_vars>>

\* eta < start_at: continue
NsSkipEarly ==
    /\ ns_pc = "running"
    /\ NsOutcome = "skip_early"
    /\ crons_cur' = GetNext(crontab, crons_cur)
    /\ previous' = NextPrevious(NsOutcome, crons_cur', previous)
    /\ UNCHANGED <<crontab, start_at, stop_at, resolution, yielded, ns_pc>>
    /\ UNCHANGED <<job_vars, sw_vars>>

\* eta - previous < timedelta(seconds=resolution): continue
NsSkipFrequent ==
    /\ ns_pc = "running"
    /\ NsOutcome = "skip_frequent"
    /\ crons_cur' = GetNext(crontab, crons_cur)
    /\ previous' = NextPrevious(NsOutcome, crons_cur', previous)
    /\ UNCHANGED <<crontab, start_at, stop_at, resolution, yielded, ns_pc>>
    /\ UNCHANGED <<job_vars, sw_vars>>

\* yield eta; previous = eta
NsYield ==
    /\ ns_pc = "running"
    /\ NsOutcome = "yield"
    /\ crons_cur' = GetNext(crontab, crons_cur)
    /\ yielded' = Append(yielded, crons_cur')
    /\ previous' = NextPrevious(NsOutcome, crons_cur', previous)
    /\ UNCHANGED <<crontab, start_at, stop_at, resolution, ns_pc>>
    /\ UNCHANGED <<job_vars, sw_vars>>

NsNext == NsBreak \/ NsSkipEarly \/ NsSkipFrequent \/ NsYield

\* ------------------------------------------------- schedule_email_report
\* `a or b`
OrElseStoredFirst(a, b, empty) == IF b # empty THEN b ELSE a

OrElse(a, b, empty) == IF a # empty THEN a ELSE b

\* the management UI clears the active flag of a schedule whose job waits
Deactivate ==
    /\ job_pc = "queued"
    /\ sched_present /\ sched_active
    /\ sched_active' = FALSE
    /\ UNCHANGED <<sched_present, enq_active, schedule, args, job_pc,
                   job_error, time_limit, resolved_vars, render_vars,
                   report_content, deliver_vars, ns_vars, sw_vars>>

\* the management UI deletes a schedule whose job waits
DeleteSchedule ==
    /\ job_pc = "queued"
    /\ sched_present
    /\ sched_present' = FALSE
    /\ UNCHANGED <<sched_active, enq_active, schedule, args, job_pc,
                   job_error, time_limit, resolved_vars, render_vars,
                   report_content, deliver_vars, ns_vars, sw_vars>>

\* lines 487-488: no model class for the kind; query(None) raises in the
\* store layer before the schedule is looked at, so the final
\* `else: raise RuntimeError` of line 519 is never reached with such a kind
ExecUnknownKind ==
    /\ job_pc = "queued"
    /\ get_scheduler_model(schedule.report_type) = "None"
    /\ job_pc' = "raised"
    /\ job_error' = "InvalidRequestError"
    /\ UNCHANGED <<store_vars, time_limit, resolved_vars, render_vars,
                   report_content, deliver_vars, ns_vars, sw_vars>>

\* lines 487-493: the schedule is gone or not active
ExecIgnore ==
    /\ job_pc = "queued"
    /\ get_scheduler_model(schedule.report_type) # "None"
    /\ IsIgnored(sched_present, sched_active)
    /\ job_pc' = "returned"
    /\ UNCHANGED <<store_vars, time_limit,
                   job_error, resolved_vars, render_vars,
                   report_content, deliver_vars, ns_vars, sw_vars>>

\* lines 495-508: deliver_dashboard is entered, up to create_webdriver
ExecDashboard ==
    /\ job_pc = "queued"
    /\ ~IsIgnored(sched_present, sched_active)
    /\ schedule.report_type = "dashboard"
    /\ recipients' = OrElse(args.recipients, schedule.recipients, <<>>)
    /\ slack_channel' = OrElse(args.slack_channel, schedule.slack_channel, "")
    /\ job_pc' = "create_webdriver"
    /\ UNCHANGED <<store_vars, time_limit,
                   job_error, render_vars, report_content,
                   deliver_vars, ns_vars, sw_vars>>

\* lines 495-517 and 442-449: deliver_slice is entered and branches
ExecSlice ==
    /\ job_pc = "queued"
    /\ ~IsIgnored(sched_present, sched_active)
    /\ schedule.report_type = "slice"
    /\ recipients' = OrElse(args.recipients, schedule.recipients, <<>>)
    /\ slack_channel' = OrElse(args.slack_channel, schedule.slack_channel, "")
    /\ IF schedule.email_format = "data"
       THEN job_pc' = "get_slice_data" /\ job_error' = job_error
       ELSE IF schedule.email_format = "visualization"
       THEN job_pc' = "create_webdriver" /\ job_error' = job_error
       ELSE job_pc' = "raised" /\ job_error' = "RuntimeError"
    /\ UNCHANGED <<store_vars, time_limit,
                   render_vars, report_content, deliver_vars,
                   ns_vars, sw_vars>>

\* ------------------------------------------------------ create_webdriver
\* driver_class(**kwargs) raises: no client exists
CreateLaunchFails ==
    /\ job_pc = "create_webdriver"
    /\ job_pc' = "raised"
    /\ job_error' = "WebDriverException"
    /\ UNCHANGED <<store_vars, time_limit,
                   resolved_vars, render_vars, report_content,
                   deliver_vars, ns_vars, sw_vars>>

\* the client is launched, then the welcome page or the cookies raise
CreateWelcomeFails ==
    /\ job_pc = "create_webdriver"
    /\ drivers_created' = drivers_created + 1
    /\ job_pc' = "raised"
    /\ job_error' = "WebDriverException"
    /\ UNCHANGED <<store_vars, time_limit,
                   resolved_vars, driver_returned, destroy_calls,
                   close_calls, quit_calls, find_calls, pending, screenshot,
                   report_content, deliver_vars,
                   find_sleeps, swallowed, ns_vars, sw_vars>>

\* create_webdriver returns the client
CreateReturns ==
    /\ job_pc = "create_webdriver"
    /\ drivers_created' = drivers_created + 1
    /\ driver_returned' = TRUE
    /\ job_pc' = "navigate"
    /\ UNCHANGED <<store_vars, time_limit,
                   job_error, resolved_vars, destroy_calls,
                   close_calls, quit_calls, find_calls, pending, screenshot,
                   report_content, deliver_vars,
                   find_sleeps, swallowed, ns_vars, sw_vars>>

\* ---------------------- deliver_dashboard / _get_slice_visualization
\* set_window_size, driver.get(url), time.sleep
NavigateOk ==
    /\ job_pc = "navigate"
    /\ job_pc' = "find_element"
    /\ UNCHANGED <<store_vars, time_limit,
                   job_error, resolved_vars, render_vars,
                   report_content, deliver_vars, ns_vars, sw_vars>>

NavigateFails ==
    /\ job_pc = "navigate"
    /\ job_pc' = "raised"
    /\ job_error' = "WebDriverException"
    /\ UNCHANGED <<store_vars, time_limit,
                   resolved_vars, render_vars, report_content,
                   deliver_vars, ns_vars, sw_vars>>

\* retry_call(find_element_by_class_name, tries=2, delay=...): a try finds it
FindOk ==
    /\ job_pc = "find_element"
    /\ find_calls' = find_calls + 1
    /\ job_pc' = "screenshot"
    /\ UNCHANGED <<store_vars, time_limit,
                   job_error, resolved_vars, drivers_created,
                   driver_returned, destroy_calls, close_calls, quit_calls,
                   pending, screenshot, report_content, deliver_vars,
                   find_sleeps, swallowed, ns_vars, sw_vars>>

\* a try raises: retried after the delay, or raised once the tries are spent
FindFails ==
    /\ job_pc = "find_element"
    /\ find_calls' = find_calls + 1
    /\ IF RetryGivesUp(FindElementTries - find_calls')
       THEN /\ job_pc' = "raised"
            /\ job_error' = "NoSuchElementException"
            /\ find_sleeps' = find_sleeps
       ELSE /\ job_pc' = "find_element"
            /\ job_error' = job_error
            /\ find_sleeps' = Append(find_sleeps, "EMAIL_PAGE_RENDER_WAIT")
    /\ time_limit' = time_limit
    /\ UNCHANGED <<store_vars, resolved_vars, drivers_created,
                   driver_returned, destroy_calls, close_calls, quit_calls,
                   swallowed, pending, screenshot, report_content,
                   deliver_vars, ns_vars, sw_vars>>

\* try: screenshot = element.screenshot_as_png ... finally: destroy_webdriver
ElementScreenshotOk ==
    /\ job_pc = "screenshot"
    /\ screenshot' = "element"
    /\ destroy_calls' = destroy_calls + 1
    /\ job_pc' = "destroy_close"
    /\ UNCHANGED <<store_vars, time_limit,
                   job_error, resolved_vars, drivers_created,
                   driver_returned, close_calls, quit_calls, find_calls,
                   pending, report_content, deliver_vars,
                   find_sleeps, swallowed, ns_vars, sw_vars>>

\* except WebDriverException: the whole page is tried
ElementScreenshotUnsupported ==
    /\ job_pc = "screenshot"
    /\ job_pc' = "page_screenshot"
    /\ UNCHANGED <<store_vars, time_limit,
                   job_error, resolved_vars, render_vars,
                   report_content, deliver_vars, ns_vars, sw_vars>>

\* another exception: finally runs with it in flight
ElementScreenshotRaises ==
    /\ job_pc = "screenshot"
    /\ pending' = "Exception"
    /\ destroy_calls' = destroy_calls + 1
    /\ job_pc' = "destroy_close"
    /\ UNCHANGED <<store_vars, time_limit,
                   job_error, resolved_vars, drivers_created,
                   driver_returned, close_calls, quit_calls, find_calls,
                   screenshot, report_content, deliver_vars,
                   find_sleeps, swallowed, ns_vars, sw_vars>>

\* screenshot = driver.screenshot()
PageScreenshotOk ==
    /\ job_pc = "page_screenshot"
    /\ screenshot' = "page"
    /\ destroy_calls' = destroy_calls + 1
    /\ job_pc' = "destroy_close"
    /\ UNCHANGED <<store_vars, time_limit,
                   job_error, resolved_vars, drivers_created,
                   driver_returned, close_calls, quit_calls, find_calls,
                   pending, report_content, deliver_vars,
                   find_sleeps, swallowed, ns_vars, sw_vars>>

PageScreenshotRaises ==
    /\ job_pc = "page_screenshot"
    /\ pending' = "WebDriverException"
    /\ destroy_calls' = destroy_calls + 1
    /\ job_pc' = "destroy_close"
    /\ UNCHANGED <<store_vars, time_limit,
                   job_error, resolved_vars, drivers_created,
                   driver_returned, close_calls, quit_calls, find_calls,
                   screenshot, report_content, deliver_vars,
                   find_sleeps, swallowed, ns_vars, sw_vars>>

\* ------------------------------------------------- the soft time limit
\* The worker raises SoftTimeLimitExceeded, once, inside the running job
\* (soft_time_limit, line 477).  It is followed from the moment the client
\* exists until destroy_webdriver has returned.
\* raised during set_window_size, driver.get or time.sleep: no handler
TimeLimitNavigate ==
    /\ job_pc = "navigate"
    /\ ~time_limit
    /\ time_limit' = TRUE
    /\ job_pc' = "raised"
    /\ job_error' = "SoftTimeLimitExceeded"
    /\ UNCHANGED <<store_vars, resolved_vars, render_vars, report_content,
                   deliver_vars, ns_vars, sw_vars>>

\* raised during a try of the lookup: retry_call catches Exception, so the
\* try counts as failed
TimeLimitFindTry ==
    /\ job_pc = "find_element"
    /\ ~time_limit
    /\ time_limit' = TRUE
    /\ find_calls' = find_calls + 1
    /\ IF RetryGivesUp(FindElementTries - find_calls')
       THEN /\ job_pc' = "raised"
            /\ job_error' = "SoftTimeLimitExceeded"
            /\ find_sleeps' = find_sleeps
       ELSE /\ job_pc' = "find_element"
            /\ job_error' = job_error
            /\ find_sleeps' = Append(find_sleeps, "EMAIL_PAGE_RENDER_WAIT")
    /\ UNCHANGED <<store_vars, resolved_vars, drivers_created,
                   driver_returned, destroy_calls, close_calls, quit_calls,
                   swallowed, pending, screenshot, report_content,
                   deliver_vars, ns_vars, sw_vars>>

\* raised during the delay between two tries: no handler
TimeLimitFindDelay ==
    /\ job_pc = "find_element"
    /\ find_calls > 0
    /\ ~time_limit
    /\ time_limit' = TRUE
    /\ job_pc' = "raised"
    /\ job_error' = "SoftTimeLimitExceeded"
    /\ UNCHANGED <<store_vars, resolved_vars, render_vars, report_content,
                   deliver_vars, ns_vars, sw_vars>>

\* raised inside the try block: not a WebDriverException, finally runs
\* with it in flight
TimeLimitScreenshot ==
    /\ job_pc \in {"screenshot", "page_screenshot"}
    /\ ~time_limit
    /\ time_limit' = TRUE
    /\ pending' = "SoftTimeLimitExceeded"
    /\ destroy_calls' = destroy_calls + 1
    /\ job_pc' = "destroy_close"
    /\ UNCHANGED <<store_vars, job_error, resolved_vars, drivers_created,
                   driver_returned, close_calls, quit_calls, find_calls,
                   screenshot, report_content, deliver_vars,
                   find_sleeps, swallowed, ns_vars, sw_vars>>

\* ----------------------------------------------------- destroy_webdriver
\* `if slack_channel:` after the e-mails
AfterEmail(chan) == IF chan # "" THEN "deliver_slack" ELSE "returned"

\* `if recipients:` and the first turn of the loop of _deliver_email
EnterDeliveryChatOnly(rcpt, chan, group) == AfterEmail(chan)

EnterDelivery(rcpt, chan, group) ==
    IF rcpt # <<>> /\ Len(GetEmailToAndBcc(rcpt, group)) > 0
    THEN "deliver_email"
    ELSE AfterEmail(chan)

\* retry_call(driver.close, tries=2): a try succeeds
CloseOk ==
    /\ job_pc = "destroy_close"
    /\ close_calls' = close_calls + 1
    /\ job_pc' = "destroy_quit"
    /\ UNCHANGED <<store_vars, time_limit,
                   job_error, resolved_vars, drivers_created,
                   driver_returned, destroy_calls, quit_calls, find_calls,
                   pending, screenshot, report_content, deliver_vars,
                   find_sleeps, swallowed, ns_vars, sw_vars>>

\* `except Exception: pass`: every exception class of the model derives
\* from Exception
DestroyCatchesNothing(exc) == FALSE

DestroyCatches(exc) == exc # "BaseException"

\* a try of driver.close raised exc: retry_call tries again, or lets exc
\* through to destroy_webdriver's first `except Exception: pass`
CloseTryFailed(exc) ==
    /\ close_calls' = close_calls + 1
    /\ IF ~RetryGivesUp(CloseTries - close_calls')
       THEN /\ job_pc' = "destroy_close"
            /\ UNCHANGED <<job_error, swallowed>>
       ELSE IF DestroyCatches(exc)
       THEN /\ job_pc' = "destroy_quit"
            /\ swallowed' = Append(swallowed, "close")
            /\ UNCHANGED job_error
       ELSE /\ job_pc' = "raised"
            /\ job_error' = exc
            /\ UNCHANGED swallowed

\* a try raises: retried, or swallowed once the tries are spent
CloseFails ==
    /\ job_pc = "destroy_close"
    /\ CloseTryFailed("WebDriverException")
    /\ time_limit' = time_limit
    /\ UNCHANGED <<store_vars, resolved_vars, drivers_created,
                   driver_returned, destroy_calls, quit_calls, find_calls,
                   find_sleeps, pending, screenshot, report_content,
                   deliver_vars, ns_vars, sw_vars>>

\* destroy_webdriver returns; the exception in flight, if any, leaves the
\* job; otherwise _generate_report_content builds the content and the
\* deliveries start
AfterDestroyIgnoresPending ==
    /\ job_pc' = EnterDelivery(recipients, slack_channel,
                               schedule.deliver_as_group)
    /\ job_error' = job_error
    /\ report_content' =
           GenerateReportContent(schedule.delivery_type, screenshot)

AfterDestroy ==
    IF pending # ""
    THEN /\ job_pc' = "raised"
         /\ job_error' = pending
         /\ report_content' = report_content
    ELSE /\ job_pc' = EnterDelivery(recipients, slack_channel,
                                    schedule.deliver_as_group)
         /\ job_error' = job_error
         /\ report_content' =
                GenerateReportContent(schedule.delivery_type, screenshot)

\* driver.quit() raised exc: the second `except Exception: pass`
QuitFailed(exc) ==
    /\ quit_calls' = quit_calls + 1
    /\ IF DestroyCatches(exc)
       THEN /\ swallowed' = Append(swallowed, "quit")
            /\ AfterDestroy
       ELSE /\ job_pc' = "raised"
            /\ job_error' = exc
            /\ UNCHANGED <<swallowed, report_content>>

\* driver.quit() returns
QuitOk ==
    /\ job_pc = "destroy_quit"
    /\ quit_calls' = quit_calls + 1
    /\ AfterDestroy
    /\ UNCHANGED <<store_vars, time_limit,
                   resolved_vars, drivers_created,
                   driver_returned, destroy_calls, close_calls, find_calls,
                   pending, screenshot, deliver_vars,
                   find_sleeps, swallowed, ns_vars, sw_vars>>

\* driver.quit() raises: swallowed
QuitFails ==
    /\ job_pc = "destroy_quit"
    /\ QuitFailed("WebDriverException")
    /\ time_limit' = time_limit
    /\ UNCHANGED <<store_vars, resolved_vars, drivers_created,
                   driver_returned, destroy_calls, close_calls, find_calls,
                   find_sleeps, pending, screenshot, deliver_vars, ns_vars,
                   sw_vars>>

\* SoftTimeLimitExceeded raised during a try of driver.close: retry_call
\* catches Exception, so the try counts as failed
TimeLimitClose ==
    /\ job_pc = "destroy_close"
    /\ ~time_limit
    /\ time_limit' = TRUE
    /\ CloseTryFailed("SoftTimeLimitExceeded")
    /\ UNCHANGED <<store_vars, resolved_vars, drivers_created,
                   driver_returned, destroy_calls, quit_calls, find_calls,
                   find_sleeps, pending, screenshot, report_content,
                   deliver_vars, ns_vars, sw_vars>>

\* SoftTimeLimitExceeded raised during driver.quit: `except Exception: pass`
TimeLimitQuit ==
    /\ job_pc = "destroy_quit"
    /\ ~time_limit
    /\ time_limit' = TRUE
    /\ QuitFailed("SoftTimeLimitExceeded")
    /\ UNCHANGED <<store_vars, resolved_vars, drivers_created,
                   driver_returned, destroy_calls, close_calls, find_calls,
                   find_sleeps, pending, screenshot, deliver_vars, ns_vars,
                   sw_vars>>

\* -------------------------------------------------------- _get_slice_data
\* the fetch answers 200: the content is built from the rows
FetchOk ==
    /\ job_pc = "get_slice_data"
    /\ report_content' = SliceDataContent(schedule.delivery_type)
    /\ job_pc' = EnterDelivery(recipients, slack_channel,
                               schedule.deliver_as_group)
    /\ UNCHANGED <<store_vars, time_limit,
                   job_error, resolved_vars, render_vars,
                   deliver_vars, ns_vars, sw_vars>>

\* opener.open raises, or the answer is not 200: URLError
FetchFails ==
    /\ job_pc = "get_slice_data"
    /\ job_pc' = "raised"
    /\ job_error' = "URLError"
    /\ UNCHANGED <<store_vars, time_limit,
                   resolved_vars, render_vars, report_content,
                   deliver_vars, ns_vars, sw_vars>>

\* --------------------------------------------------------- _deliver_email
\* the (to, bcc) pair of the loop's current turn
EmailTurn ==
    GetEmailToAndBcc(recipients, schedule.deliver_as_group)[Len(email_sends) + 1]

\* send_email_smtp returns: the loop goes on, or ends after the last pair
SendOk ==
    /\ job_pc = "deliver_email"
    /\ email_sends' = Append(email_sends,
                             [to |-> EmailTurn.to, bcc |-> EmailTurn.bcc,
                              ok |-> TRUE])
    /\ job_pc' = IF Len(email_sends') =
                      Len(GetEmailToAndBcc(recipients,
                                           schedule.deliver_as_group))
                 THEN AfterEmail(slack_channel)
                 ELSE "deliver_email"
    /\ UNCHANGED <<store_vars, time_limit,
                   job_error, resolved_vars, render_vars,
                   report_content, slack_uploads, slack_tries, slack_delay,
                   slack_sleeps, ns_vars, sw_vars>>

\* send_email_smtp raises: nothing catches it, it leaves the loop and the job
SendFails ==
    /\ job_pc = "deliver_email"
    /\ email_sends' = Append(email_sends,
                             [to |-> EmailTurn.to, bcc |-> EmailTurn.bcc,
                              ok |-> FALSE])
    /\ job_pc' = "raised"
    /\ job_error' = "SMTPException"
    /\ UNCHANGED <<store_vars, time_limit,
                   resolved_vars, render_vars, report_content,
                   slack_uploads, slack_tries, slack_delay, slack_sleeps,
                   ns_vars, sw_vars>>

\* --------------------------------------------------------- _deliver_slack
\* files_upload returns a response that holds the file
UploadOk ==
    /\ job_pc = "deliver_slack"
    /\ slack_uploads' = Append(slack_uploads, "ok")
    /\ job_pc' = "returned"
    /\ UNCHANGED <<store_vars, time_limit,
                   job_error, resolved_vars, render_vars,
                   report_content, email_sends, slack_tries, slack_delay,
                   slack_sleeps, ns_vars, sw_vars>>

\* @retry(SlackApiError, ...): the exceptions the decorator catches
RetryCatchesAll(exc) == TRUE

RetryCatches(exc) == exc = "SlackApiError"

\* retry: `_delay *= backoff` after the sleep
NextDelayFixed(delay) == delay

NextDelay(delay) == delay * SlackBackoff

\* a try of _deliver_slack raised exc: retry lets it through if it does not
\* catch it; otherwise it counts the try, then raises or sleeps _delay
SlackTryFailed(exc) ==
    IF ~RetryCatches(exc)
    THEN /\ job_pc' = "raised"
         /\ job_error' = exc
         /\ UNCHANGED <<slack_tries, slack_delay, slack_sleeps>>
    ELSE /\ slack_tries' = slack_tries - 1
         /\ IF RetryGivesUp(slack_tries')
            THEN /\ job_pc' = "raised"
                 /\ job_error' = exc
                 /\ UNCHANGED <<slack_delay, slack_sleeps>>
            ELSE /\ job_pc' = "deliver_slack"
                 /\ job_error' = job_error
                 /\ slack_sleeps' = Append(slack_sleeps, slack_delay)
                 /\ slack_delay' = NextDelay(slack_delay)

\* files_upload returns a response without the file: the assert fails, and
\* retry lets an AssertionError through
UploadNoFile ==
    /\ job_pc = "deliver_slack"
    /\ slack_uploads' = Append(slack_uploads, "no_file")
    /\ SlackTryFailed("AssertionError")
    /\ UNCHANGED <<store_vars, time_limit, resolved_vars, render_vars,
                   report_content, email_sends, ns_vars, sw_vars>>

\* files_upload raises SlackApiError: retry counts the try, then raises or
\* sleeps _delay and multiplies it by the backoff
UploadSlackApiError ==
    /\ job_pc = "deliver_slack"
    /\ slack_uploads' = Append(slack_uploads, "SlackApiError")
    /\ SlackTryFailed("SlackApiError")
    /\ UNCHANGED <<store_vars, time_limit, resolved_vars, render_vars,
                   report_content, email_sends, ns_vars, sw_vars>>

JobNext ==
    \/ Deactivate \/ DeleteSchedule
    \/ ExecUnknownKind \/ ExecIgnore \/ ExecDashboard \/ ExecSlice
    \/ CreateLaunchFails \/ CreateWelcomeFails \/ CreateReturns
    \/ NavigateOk \/ NavigateFails
    \/ FindOk \/ FindFails
    \/ ElementScreenshotOk \/ ElementScreenshotUnsupported
    \/ ElementScreenshotRaises
    \/ PageScreenshotOk \/ PageScreenshotRaises
    \/ TimeLimitNavigate \/ TimeLimitFindTry \/ TimeLimitFindDelay
    \/ TimeLimitScreenshot \/ TimeLimitClose \/ TimeLimitQuit
    \/ CloseOk \/ CloseFails \/ QuitOk \/ QuitFails
    \/ FetchOk \/ FetchFails
    \/ SendOk \/ SendFails
    \/ UploadOk \/ UploadNoFile \/ UploadSlackApiError

\* ------------------------------------------------------ schedule_window
ScheduleIds == 1..MaxSchedules

CrontabList ==
    << [expr |-> "*/15 * * * *", mod |-> 3600, offs |-> {0, 900, 1800, 2700}],
       [expr |-> "0 * * * *",    mod |-> 3600, offs |-> {0}],
       [expr |-> "0,10 * * * *", mod |-> 3600, offs |-> {0, 600}],
       [expr |-> "30 * * * *",   mod |-> 3600, offs |-> {1800}] >>

\* the columns of the stored schedules that do not change: the odd ids are
\* dashboard schedules, the even ids slice schedules
StoredKind(id) == IF id % 2 = 1 THEN "dashboard" ELSE "slice"
StoredCrontab(id) == CrontabList[((id - 1) % Len(CrontabList)) + 1]

\* schedule_window: `if not model_cls`
NoModelNever(model_cls) == FALSE

NoModel(model_cls) == model_cls = "None"

\* dbsession.query(model_cls).filter(model_cls.active.is_(True))
ActiveSchedulesUnfiltered(store, report_type) ==
    {id \in DOMAIN store : store[id].kind = report_type}

ActiveSchedules(store, report_type) ==
    {id \in DOMAIN store : store[id].kind = report_type /\ store[id].active}

\* the orders in which the query may return the records of S
Orders(S) ==
    {f \in [1..Cardinality(S) -> S] : \A i, j \in DOMAIN f : f[i] = f[j] => i = j}

\* the inner loop: one apply_async(args, eta=eta) per instant
JobsFor(store, report_type, id, start, stop, res) ==
    LET etas == NextSchedules(store[id].crontab, start, stop, res)
    IN  [i \in 1..Len(etas) |-> [args |-> <<report_type, id>>, eta |-> etas[i]]]

\* the outer loop, over the records in the order the query returned them
RECURSIVE EnqueueAll(_, _, _, _, _, _, _)
EnqueueAll(q, store, report_type, order, start, stop, res) ==
    IF order = <<>> THEN q
    ELSE EnqueueAll(q \o JobsFor(store, report_type, Head(order), start, stop, res),
                    store, report_type, Tail(order), start, stop, res)

NoCall == [report_type |-> "None", start_at |-> 0, stop_at |-> 0,
           resolution |-> 0, store |-> <<>>, before |-> 0]

\* config.py: the feature is off and the resolution is 15 minutes unless
\* the deployment says otherwise
DefaultConfig == [enabled |-> FALSE, resolution_minutes |-> 15]

Configs ==
    {[enabled |-> e, resolution_minutes |-> m] : e \in BOOLEAN, m \in {0, 15}}

SwIdle ==
    /\ db = [id \in ScheduleIds |->
                [kind |-> StoredKind(id), active |-> FALSE,
                 crontab |-> StoredCrontab(id)]]
    /\ queue = <<>>
    /\ sw_call = NoCall
    /\ sw_calls = 0
    /\ config = DefaultConfig
    /\ hourly_runs = <<>>

SwInit ==
    /\ db \in {[id \in ScheduleIds |->
                   [kind |-> StoredKind(id), active |-> a[id],
                    crontab |-> StoredCrontab(id)]] :
               a \in [ScheduleIds -> BOOLEAN]}
    /\ queue = <<>>
    /\ sw_call = NoCall
    /\ sw_calls = 0
    /\ config = DefaultConfig
    /\ hourly_runs = <<>>

\* the store and the configuration before the first schedule_hourly
HourlyInit ==
    /\ db \in {[id \in ScheduleIds |->
                   [kind |-> StoredKind(id), active |-> a[id],
                    crontab |-> StoredCrontab(id)]] :
               a \in [ScheduleIds -> BOOLEAN]}
    /\ queue = <<>>
    /\ sw_call = NoCall
    /\ sw_calls = 0
    /\ config \in Configs
    /\ hourly_runs = <<>>

SwReportTypes == {"dashboard", "slice", "alert"}
SwStarts == {0, Seconds(3600)}
SwLengths == {Seconds(3600)}
SwResolutions == {0, 1800}

\* the management UI sets or clears a schedule's active flag (followed
\* while a call of schedule_window, or another invocation of
\* schedule_hourly, is still to come)
ToggleActive ==
    /\ \/ sw_calls < MaxCalls
       \/ hourly_runs # <<>> /\ Len(hourly_runs) < MaxHourlyRuns
    /\ \E id \in ScheduleIds :
          db' = [db EXCEPT ![id].active = ~db[id].active]
    /\ UNCHANGED <<queue, sw_call, sw_calls, hourly_vars, ns_vars, job_vars>>

\* schedule_window(report_type, ...), no model for the kind: return None
\* before the store is queried
ScheduleWindowUnknown ==
    /\ sw_calls < MaxCalls
    /\ \E t \in SwReportTypes, st \in SwStarts, len \in SwLengths,
          res \in SwResolutions :
          /\ NoModel(get_scheduler_model(t))
          /\ sw_call' = [report_type |-> t, start_at |-> st,
                         stop_at |-> st + len, resolution |-> res,
                         store |-> <<>>, before |-> Len(queue)]
    /\ sw_calls' = sw_calls + 1
    /\ UNCHANGED <<db, queue, hourly_vars, ns_vars, job_vars>>

\* schedule_window(report_type, start_at, stop_at, resolution), lines 557-569
ScheduleWindow ==
    /\ sw_calls < MaxCalls
    /\ \E t \in SwReportTypes, st \in SwStarts, len \in SwLengths,
          res \in SwResolutions :
          /\ ~NoModel(get_scheduler_model(t))
          /\ \E order \in Orders(ActiveSchedules(db, t)) :
                queue' = EnqueueAll(queue, db, t, order, st, st + len, res)
          /\ sw_call' = [report_type |-> t, start_at |-> st,
                         stop_at |-> st + len, resolution |-> res,
                         store |-> db, before |-> Len(queue)]
    /\ sw_calls' = sw_calls + 1
    /\ UNCHANGED <<db, hourly_vars, ns_vars, job_vars>>

SwNext == ToggleActive \/ ScheduleWindowUnknown \/ ScheduleWindow

\* ------------------------------------------------------- schedule_hourly
\* datetime.now(tzlocal()) at the invocations: 00:10:00, 00:30:00.5, 01:15:00
HourlyNows == {Seconds(600), Seconds(1800) + 1, Seconds(4500)}

\* .replace(microsecond=0, second=0, minute=0)
TopOfHourKeepsMinutes(now) == (now \div Seconds(60)) * Seconds(60)

TopOfHour(now) == (now \div Seconds(3600)) * Seconds(3600)

\* the clock does not run backwards between two invocations
ClockReads(now) ==
    /\ now \in HourlyNows
    /\ hourly_runs # <<>> => now >= hourly_runs[Len(hourly_runs)].now

\* schedule_hourly, lines 576-578: the feature is disabled, log and return
ScheduleHourlyDisabled ==
    /\ Len(hourly_runs) < MaxHourlyRuns
    /\ ~config.enabled
    /\ \E now \in HourlyNows :
          /\ ClockReads(now)
          /\ hourly_runs' = Append(hourly_runs,
                                   [now |-> now, store |-> <<>>,
                                    before |-> Len(queue),
                                    after |-> Len(queue)])
    /\ UNCHANGED <<db, queue, sw_call, sw_calls, config, ns_vars, job_vars>>

\* schedule_hourly, lines 580-586: schedule_window for the dashboard
\* schedules, then for the slice schedules, over the current hour
ScheduleHourly ==
    /\ Len(hourly_runs) < MaxHourlyRuns
    /\ config.enabled
    /\ \E now \in HourlyNows :
          LET resolution_ == config.resolution_minutes * 60
              start == TopOfHour(now)
              stop  == start + Seconds(3600)
          IN  /\ ClockReads(now)
              /\ \E od \in Orders(ActiveSchedules(db, "dashboard")),
                    os \in Orders(ActiveSchedules(db, "slice")) :
                    LET q1 == EnqueueAll(queue, db, "dashboard", od,
                                         start, stop, resolution_)
                        q2 == EnqueueAll(q1, db, "slice", os,
                                         start, stop, resolution_)
                    IN  /\ queue' = q2
                        /\ sw_call' = [report_type |-> "slice",
                                       start_at |-> start, stop_at |-> stop,
                                       resolution |-> resolution_,
                                       store |-> db, before |-> Len(q1)]
                        /\ hourly_runs' =
                              Append(hourly_runs,
                                     [now |-> now, store |-> db,
                                      before |-> Len(queue),
                                      after |-> Len(q2)])
    /\ sw_calls' = sw_calls + 2
    /\ UNCHANGED <<db, config, ns_vars, job_vars>>

HourlyNext == ToggleActive \/ ScheduleHourlyDisabled \/ ScheduleHourly

\* --------------------------------------------------------- specifications
\* next_schedules alone, over every input of the bounded sets
InitExpand == NsInit /\ JobIdle /\ SwIdle

SpecExpand == InitExpand /\ [][NsNext]_vars

\* the for loop that consumes the generator runs it until it is exhausted
SpecExpandFair == SpecExpand /\ WF_vars(NsNext)

\* one delivery job, from the queue to its end
InitJob == JobInit /\ NsIdle /\ SwIdle

SpecJob == InitJob /\ [][JobNext]_vars

\* calls of schedule_window over a store the management UI changes
InitWindow == SwInit /\ NsIdle /\ JobIdle

SpecWindow == InitWindow /\ [][SwNext]_vars

\* invocations of schedule_hourly over a store the management UI changes
InitHourly == HourlyInit /\ NsIdle /\ JobIdle

SpecHourly == InitHourly /\ [][HourlyNext]_vars

\* ------------------------------------------------------------ properties
Range(seq) == {seq[i] : i \in DOMAIN seq}

AllSlackApiError(seq) == \A i \in DOMAIN seq : seq[i] = "SlackApiError"

\* C1: next_schedules never yields an instant at or after stop_at.
C1_NeverAtOrAfterStop ==
    \A i \in DOMAIN yielded : yielded[i] < stop_at

\* C1 witness: the cron fires exactly at stop_at, the generator has stopped
\* there, and it yielded instants before it.
C1_Witness ==
    /\ ns_pc = "done"
    /\ crons_cur = stop_at
    /\ CronFiresAt(crontab, stop_at)
    /\ Len(yielded) > 0

\* C2 (as claimed): for every resolution, when start_at < stop_at and the cron
\* fires exactly at start_at, the finished generator has yielded start_at;
\* and no yielded instant is earlier than start_at.
C2_StartIncluded ==
    /\ \A i \in DOMAIN yielded : yielded[i] >= start_at
    /\ (ns_pc = "done" /\ start_at < stop_at /\ CronFiresAt(crontab, start_at))
          => start_at \in Range(yielded)

\* C3: two consecutively yielded instants are at least `resolution` seconds
\* apart.
C3_Debounce ==
    \A i \in 1..(Len(yielded) - 1) :
        yielded[i + 1] - yielded[i] >= Seconds(resolution)

\* C3 witness: a cron that fires every minute, debounced to 15 minutes, has
\* yielded two instants (and skipped the fourteen between them).
C3_Witness ==
    /\ crontab.expr = "* * * * *"
    /\ resolution = 900
    /\ Len(yielded) >= 2
    /\ yielded[2] - yielded[1] = Seconds(900)

\* C4: with stop_at <= start_at the generator never yields anything, and
\* it terminates.
C4_EmptyWindow ==
    (stop_at <= start_at) => ([](yielded = <<>>) /\ <>(ns_pc = "done"))

\* C4 witness: an empty window whose start the cron fires at, expanded to
\* the end.
C4_Witness ==
    /\ stop_at = start_at
    /\ CronFiresAt(crontab, start_at)
    /\ ns_pc = "done"

\* C5 (as claimed): once create_webdriver has returned a client, the job
\* ends, normally or with an exception, with destroy_webdriver called
\* exactly once.
C5_DestroyedOnEveryExit ==
    (job_pc \in {"returned", "raised"} /\ driver_returned)
        => destroy_calls = 1

\* C6: a job that runs for a schedule (of a kind that has a schedule model)
\* that is missing or not active returns normally and has launched no
\* client, built no content, sent no e-mail and uploaded nothing.
C6_IgnoredScheduleDoesNothing ==
    (job_pc # "queued" /\ (~sched_present \/ ~sched_active)
        /\ get_scheduler_model(schedule.report_type) # "None") =>
        /\ job_pc = "returned"
        /\ job_error = ""
        /\ drivers_created = 0
        /\ find_calls = 0
        /\ report_content = NoContent
        /\ email_sends = <<>>
        /\ slack_uploads = <<>>

\* C6 witness: the schedule was active when the job was enqueued, was
\* deactivated while the job waited, and the job has run.
C6_Witness ==
    /\ enq_active
    /\ sched_present
    /\ ~sched_active
    /\ job_pc = "returned"

\* C7: _deliver_slack makes at most 5 uploads; an upload is followed by
\* another only if it raised SlackApiError; SlackApiError leaves the job
\* exactly when all of 5 uploads raised it.
C7_SlackRetryBound ==
    /\ Len(slack_uploads) <= 5
    /\ \A i \in 1..(Len(slack_uploads) - 1) : slack_uploads[i] = "SlackApiError"
    /\ (job_pc = "raised" /\ job_error = "SlackApiError")
          <=> (Len(slack_uploads) = 5 /\ AllSlackApiError(slack_uploads))
    /\ (slack_uploads # <<>> /\ Len(slack_uploads) < 5
            /\ AllSlackApiError(slack_uploads))
          => job_pc = "deliver_slack"
    /\ (slack_uploads # <<>>
            /\ slack_uploads[Len(slack_uploads)] = "ok")
          => job_pc = "returned"

\* C7 witness: the fifth upload raised SlackApiError and the error left the
\* job.
C7_Witness ==
    /\ job_pc = "raised"
    /\ job_error = "SlackApiError"
    /\ Len(slack_uploads) = 5

\* C8 (as claimed): with deliver_as_group false, a finished e-mail delivery
\* has attempted one send per parsed address, whichever of them failed.
C8_SiblingSendsAttempted ==
    (job_pc \in {"returned", "raised"} /\ email_sends # <<>>
        /\ ~schedule.deliver_as_group)
      => Len(email_sends) = Len(get_email_address_list(recipients))

\* C9 (as claimed): a finished e-mail delivery has made exactly n sends, to
\* the parsed addresses in list order, when deliver_as_group is false, and
\* exactly one send to the whole recipient string when it is true; every
\* send carries the configured BCC address.
C9_GroupVersusIndividual ==
    (job_pc \in {"returned", "raised"} /\ email_sends # <<>>) =>
        /\ \A i \in DOMAIN email_sends : email_sends[i].bcc = BccAddress
        /\ IF schedule.deliver_as_group
           THEN /\ Len(email_sends) = 1
                /\ email_sends[1].to = recipients
           ELSE LET l == get_email_address_list(recipients) IN
                /\ Len(email_sends) = Len(l)
                /\ \A i \in DOMAIN l : email_sends[i].to = l[i]

\* what one call has enqueued for schedule id, against what it read
C10_Enqueued(id) ==
    LET new == SubSeq(queue, sw_call.before + 1, Len(queue))
        Mine(j) == j.args = <<sw_call.report_type, id>>
        mine == SelectSeq(new, Mine)
        rec == sw_call.store[id]
    IN  IF rec.kind = sw_call.report_type /\ rec.active
        THEN /\ [i \in 1..Len(mine) |-> mine[i].eta]
                   = NextSchedules(rec.crontab, sw_call.start_at,
                                   sw_call.stop_at, sw_call.resolution)
             /\ \A i \in DOMAIN mine :
                   /\ CronFiresAt(rec.crontab, mine[i].eta)
                   /\ sw_call.start_at <= mine[i].eta
                   /\ mine[i].eta < sw_call.stop_at
        ELSE mine = <<>>

\* C10: the jobs one call of schedule_window for a known kind has enqueued
\* are, for each schedule of that kind that was active, one job per instant
\* of next_schedules with that instant as eta and (kind, id) as arguments,
\* and none for any other schedule; no job body has run.
C10_OneJobPerInstant ==
    get_scheduler_model(sw_call.report_type) # "None" =>
        /\ \A id \in ScheduleIds : C10_Enqueued(id)
        /\ \A i \in (sw_call.before + 1)..Len(queue) :
              /\ queue[i].args[1] = sw_call.report_type
              /\ queue[i].args[2] \in ScheduleIds
        /\ drivers_created = 0 /\ email_sends = <<>> /\ slack_uploads = <<>>

\* C10 witness: a call over a store that holds an active and an inactive
\* schedule of the kind has enqueued several jobs.
C10_Witness ==
    /\ sw_call.report_type = "dashboard"
    /\ \E a, b \in ScheduleIds :
          /\ sw_call.store[a].kind = "dashboard" /\ sw_call.store[a].active
          /\ sw_call.store[b].kind = "dashboard" /\ ~sw_call.store[b].active
    /\ Len(queue) >= sw_call.before + 2

\* C12: a built ReportContent has exactly one of the attachment mapping,
\* the inline-image mapping and the html-table body populated, the one that
\* matches the delivery mode and the target; the chat message and the chat
\* attachment are always populated.
C12_ContentModeExclusive ==
    report_content # NoContent =>
        LET att == report_content.data # "none"
            img == report_content.images # "none"
            tbl == report_content.body = "table"
            tabular == schedule.report_type = "slice"
                          /\ schedule.email_format = "data"
        IN  /\ schedule.delivery_type = "attachment"
                  => (att /\ ~img /\ ~tbl)
            /\ (schedule.delivery_type = "inline" /\ tabular)
                  => (tbl /\ ~att /\ ~img)
            /\ (schedule.delivery_type = "inline" /\ ~tabular)
                  => (img /\ ~att /\ ~tbl)
            /\ report_content.body # "none"
            /\ report_content.slack_message # "none"
            /\ report_content.slack_attachment # "none"

\* C12 witness: an inline dashboard report whose content has been built
\* from the screenshot.
C12_Witness ==
    /\ schedule.report_type = "dashboard"
    /\ schedule.delivery_type = "inline"
    /\ report_content # NoContent
    /\ report_content.images = "msgid"

\* C13 (as claimed): when SoftTimeLimitExceeded, raised after
\* create_webdriver returned the client, leaves the job, destroy_webdriver
\* has run.
C13_DestroyedOnTimeLimit ==
    (job_pc = "raised" /\ job_error = "SoftTimeLimitExceeded"
        /\ driver_returned)
      => destroy_calls >= 1

\* C14 (as claimed): a job that has run for an active schedule of an
\* unknown kind, or for an active slice schedule of an unknown format, has
\* ended with RuntimeError, with no e-mail sent and nothing uploaded.
C14_UnknownKindIsRuntimeError ==
    (job_pc # "queued" /\ sched_present /\ sched_active
        /\ \/ get_scheduler_model(schedule.report_type) = "None"
           \/ /\ schedule.report_type = "slice"
              /\ schedule.email_format \notin {"data", "visualization"})
      => /\ job_pc = "raised"
         /\ job_error = "RuntimeError"
         /\ email_sends = <<>>
         /\ slack_uploads = <<>>

\* C15: a call of schedule_window for a kind that has no schedule model
\* has returned with no query made and no job enqueued.
C15_UnknownKindIsNoOp ==
    (sw_calls > 0 /\ get_scheduler_model(sw_call.report_type) = "None") =>
        /\ sw_call.store = <<>>
        /\ Len(queue) = sw_call.before

\* C15 witness: after a call that enqueued jobs, a call for the kind
\* "alert" over a store that holds active schedules has left the queue as
\* it was.
C15_Witness ==
    /\ sw_calls = 2
    /\ sw_call.report_type = "alert"
    /\ \E id \in ScheduleIds : db[id].active
    /\ Len(queue) > 0
    /\ Len(queue) = sw_call.before

\* C16: the recipients and the channel a job delivers to are the
\* overrides it was given wherever an override is non-empty, and the
\* schedule's stored values otherwise, each of the two on its own.
C16_OverrideWins ==
    (job_pc # "queued" /\ sched_present /\ sched_active
        /\ get_scheduler_model(schedule.report_type) # "None") =>
        LET rcpt == IF args.recipients # <<>>
                    THEN args.recipients ELSE schedule.recipients
            chan == IF args.slack_channel # ""
                    THEN args.slack_channel ELSE schedule.slack_channel
        IN  /\ recipients = rcpt
            /\ slack_channel = chan
            /\ \A i \in DOMAIN email_sends :
                  IF schedule.deliver_as_group
                  THEN email_sends[i].to = rcpt
                  ELSE email_sends[i].to
                          \in Range(get_email_address_list(rcpt))
            /\ slack_uploads # <<>> => chan # ""

\* C16 witness: a job given recipients but no channel, for a schedule that
\* stores both, has sent to the given recipients and uploaded to the stored
\* channel.
C16_Witness ==
    /\ args.recipients # <<>>
    /\ schedule.recipients # <<>>
    /\ args.slack_channel = ""
    /\ schedule.slack_channel # ""
    /\ job_pc = "returned"
    /\ email_sends # <<>>
    /\ email_sends[1].to = args.recipients
    /\ slack_channel = schedule.slack_channel
    /\ slack_uploads # <<>>

\* the instants of [start, stop) at which the cron fires; every fire instant
\* of a five-field crontab is a whole minute
FireInstants(c, start, stop) ==
    {t \in {Seconds(60 * k) :
                k \in (start \div Seconds(60))..(stop \div Seconds(60))} :
        start <= t /\ t < stop /\ CronFiresAt(c, t)}

Max(S) == CHOOSE x \in S : \A y \in S : x >= y

\* C18: with resolution 0 the finished generator has yielded exactly the
\* instants of [start_at, stop_at) at which the cron fires, each once, in
\* strictly increasing order; an hourly cron over the three hours from
\* 00:00 gives 00:00, 01:00, 02:00.
C18_NoDebounceIsExact ==
    (ns_pc = "done" /\ resolution = 0) =>
        /\ Range(yielded) = FireInstants(crontab, start_at, stop_at)
        /\ \A i, j \in DOMAIN yielded : i < j => yielded[i] < yielded[j]
        /\ (crontab.expr = "0 * * * *" /\ start_at = 0
                /\ stop_at = Seconds(10800))
              => yielded = <<0, Seconds(3600), Seconds(7200)>>

\* C18 witness: the hourly cron over the three hours from 00:00, expanded
\* to the end with resolution 0.
C18_Witness ==
    /\ ns_pc = "done"
    /\ resolution = 0
    /\ crontab.expr = "0 * * * *"
    /\ start_at = 0
    /\ stop_at = Seconds(10800)
    /\ Len(yielded) = 3

\* C19: the finished generator has yielded a cron instant of the window
\* exactly when it lies at least `resolution` seconds after the instant
\* yielded last before it (after `previous` as the call set it, when none
\* was yielded before it); an instant that was skipped does not count.  An
\* hourly cron over the three hours from 00:00 with resolution 7200 gives
\* 00:00 and 02:00.
C19_GreedyDebounce ==
    ns_pc = "done" =>
        LET F == FireInstants(crontab, start_at, stop_at)
            Y == Range(yielded)
            Last(t) == IF \E y \in Y : y < t
                       THEN Max({y \in Y : y < t})
                       ELSE Sentinel(start_at)
        IN  /\ Y \subseteq F
            /\ \A t \in F :
                  t \in Y <=> t - Last(t) >= Seconds(resolution)
            /\ (crontab.expr = "0 * * * *" /\ start_at = 0
                    /\ stop_at = Seconds(10800) /\ resolution = 7200)
                  => yielded = <<0, Seconds(7200)>>

\* C19 witness: the hourly cron over the three hours from 00:00 with
\* resolution 7200: 01:00 was skipped and 02:00, one hour after the skipped
\* instant and two after the yielded one, was yielded.
C19_Witness ==
    /\ ns_pc = "done"
    /\ crontab.expr = "0 * * * *"
    /\ start_at = 0
    /\ stop_at = Seconds(10800)
    /\ resolution = 7200
    /\ yielded = <<0, Seconds(7200)>>

\* C20 (as claimed): for every resolution, when the cron fires inside
\* [start_at, stop_at), the finished generator has yielded, first, the
\* first instant of the window at which it fires.
C20_FirstNeverSuppressed ==
    (ns_pc = "done" /\ FireInstants(crontab, start_at, stop_at) # {}) =>
        /\ yielded # <<>>
        /\ yielded[1] = Min(FireInstants(crontab, start_at, stop_at))

\* the jobs the k-th invocation of schedule_hourly enqueued
HourlyJobs(k) ==
    SubSeq(queue, hourly_runs[k].before + 1, hourly_runs[k].after)

\* the hour of the day the instant lies in
WallClockHour(t) == t \div Seconds(3600)

Occurrences(job, seq) == Cardinality({i \in DOMAIN seq : seq[i] = job})

\* C11: two invocations of schedule_hourly in the same hour that read the
\* same schedule records have each enqueued the same set of (kind, id, eta)
\* jobs, each job once; nothing is suppressed, so the queue holds a job once
\* for every invocation that enqueued it (twice after two).
C11_HourlyRunsRepeat ==
    \A i, j \in DOMAIN hourly_runs :
        (i < j /\ config.enabled
            /\ WallClockHour(hourly_runs[i].now)
                  = WallClockHour(hourly_runs[j].now)
            /\ hourly_runs[i].store = hourly_runs[j].store) =>
            /\ Range(HourlyJobs(i)) = Range(HourlyJobs(j))
            /\ Len(HourlyJobs(i)) = Cardinality(Range(HourlyJobs(i)))
            /\ Len(HourlyJobs(j)) = Cardinality(Range(HourlyJobs(j)))
            /\ \A job \in Range(HourlyJobs(i)) :
                  Occurrences(job, queue) =
                      Cardinality({k \in DOMAIN hourly_runs :
                                      job \in Range(HourlyJobs(k))})
            /\ Len(hourly_runs) = 2 =>
                  \A job \in Range(HourlyJobs(i)) :
                      Occurrences(job, queue) = 2

\* C11 witness: two invocations at different minutes of the same hour, over
\* the same records, of which one dashboard and one slice schedule are
\* active; the queue holds the jobs of the first twice.
C11_Witness ==
    /\ Len(hourly_runs) = 2
    /\ hourly_runs[1].now < hourly_runs[2].now
    /\ WallClockHour(hourly_runs[1].now) = WallClockHour(hourly_runs[2].now)
    /\ hourly_runs[1].store = hourly_runs[2].store
    /\ \E a, b \in ScheduleIds :
          /\ db[a].kind = "dashboard" /\ db[a].active
          /\ db[b].kind = "slice" /\ db[b].active
    /\ HourlyJobs(1) # <<>>
    /\ Len(queue) = 2 * Len(HourlyJobs(1))

\* C21: destroy_webdriver calls driver.close at most 2 times and then
\* driver.quit exactly once, whether or not the closes failed, and lets no
\* exception of close or quit through: once it has returned, the job goes
\* on with what was in flight before it (the caller's exception, or the
\* building of the content).
C21_DestroyNeverRaises ==
    /\ close_calls <= 2
    /\ quit_calls <= 1
    /\ job_pc = "destroy_close" => quit_calls = 0
    /\ job_pc = "destroy_quit" => (close_calls \in {1, 2} /\ quit_calls = 0)
    /\ (destroy_calls = 1 /\ job_pc \notin {"destroy_close", "destroy_quit"})
          => /\ close_calls \in {1, 2}
             /\ quit_calls = 1
             /\ IF pending # ""
                THEN job_pc = "raised" /\ job_error = pending
                ELSE report_content # NoContent

\* C21 witness: both tries of close and the quit raised, destroy_webdriver
\* swallowed them and the job went on to its normal end.
C21_Witness ==
    /\ swallowed = <<"close", "quit">>
    /\ close_calls = 2
    /\ quit_calls = 1
    /\ job_pc = "returned"
    /\ job_error = ""

\* C22: an upload whose response holds no file is the last upload of the
\* job: AssertionError leaves the job, with no sleep and no further try.
C22_NoFileIsNotRetried ==
    \A i \in DOMAIN slack_uploads :
        slack_uploads[i] = "no_file" =>
            /\ i = Len(slack_uploads)
            /\ job_pc = "raised"
            /\ job_error = "AssertionError"
            /\ Len(slack_sleeps) = i - 1

\* C22 witness: the response without the file came on the second try, with
\* three tries left.
C22_Witness ==
    /\ slack_uploads = <<"SlackApiError", "no_file">>
    /\ slack_tries = 4
    /\ job_pc = "raised"

\* C23 (as claimed): when every upload raised SlackApiError, the sleeps of
\* the retry policy were 10, 20, 40, 80, 160 seconds.
C23_FiveWaits ==
    (job_pc = "raised" /\ job_error = "SlackApiError")
        => slack_sleeps = <<10, 20, 40, 80, 160>>

\* C23 (amended): the sleeps of the retry policy are 10, 20, 40, 80 seconds
\* in that order, one after each upload that raised SlackApiError except
\* the fifth: after the fifth the error leaves the job with no sleep.
C23_FourWaits ==
    /\ \A i \in DOMAIN slack_sleeps :
          slack_sleeps[i] = <<10, 20, 40, 80>>[i]
    /\ Len(slack_sleeps) <= 4
    /\ Len(slack_sleeps) =
          Cardinality({i \in DOMAIN slack_uploads :
                          slack_uploads[i] = "SlackApiError" /\ i < 5})
    /\ (job_pc = "raised" /\ job_error = "SlackApiError")
          => slack_sleeps = <<10, 20, 40, 80>>

\* C23 witness: the fifth upload raised SlackApiError after four sleeps.
C23_Witness ==
    /\ job_error = "SlackApiError"
    /\ Len(slack_uploads) = 5
    /\ Len(slack_sleeps) = 4
    /\ slack_delay = 160

\* C24: in both renderer paths the element is looked up at most 2 times,
\* with one sleep of the configured delay between the two tries; after a
\* try that found it the job is at the screenshot, and after two failed
\* tries the error has left the job, with no third try.
C24_LookupAtMostTwice ==
    /\ find_calls <= 2
    /\ Len(find_sleeps) <= 1
    /\ \A i \in DOMAIN find_sleeps : find_sleeps[i] = "EMAIL_PAGE_RENDER_WAIT"
    /\ find_calls = 2 => Len(find_sleeps) = 1
    /\ job_pc = "find_element" => find_calls < 2
    /\ job_error = "NoSuchElementException"
          => (job_pc = "raised" /\ find_calls = 2 /\ destroy_calls = 0)
    /\ (find_calls >= 1 /\ job_pc # "find_element")
          => \/ /\ job_pc = "raised"
                /\ job_error \in {"NoSuchElementException",
                                   "SoftTimeLimitExceeded"}
             \/ job_pc \in {"screenshot", "page_screenshot"}
             \/ destroy_calls = 1

\* C24 witness: a slice visualization whose element was found by the second
\* try, after one sleep; the job is at the screenshot.
C24_Witness ==
    /\ schedule.report_type = "slice"
    /\ find_calls = 2
    /\ find_sleeps = <<"EMAIL_PAGE_RENDER_WAIT">>
    /\ ~time_limit
    /\ job_pc = "screenshot"

\* C25 (as claimed): a job that built its content and has ended has called
\* the e-mail delivery exactly when its resolved recipients are non-empty
\* and the chat delivery exactly when its resolved channel is non-empty,
\* each whatever became of the other.
C25_DeliveriesIndependent ==
    (job_pc \in {"returned", "raised"} /\ report_content # NoContent) =>
        /\ email_sends # <<>> <=> recipients # <<>>
        /\ slack_uploads # <<>> <=> slack_channel # ""

\* C26 (as claimed): a job launches at most one renderer client, exactly
\* one when it renders a page, and the client does not outlive the job:
\* when the job has ended, the client it launched has been quit.
C26_OneClientPerJob ==
    /\ drivers_created <= 1
    /\ (report_content # NoContent /\ schedule.email_format # "data")
          => drivers_created = 1
    /\ (job_pc \in {"returned", "raised"} /\ drivers_created = 1)
          => quit_calls = 1

\* C27: a chat upload is tried only after every e-mail send of the job has
\* returned: all the (to, bcc) pairs of the resolved recipients were sent to
\* without error; a send that raised has ended the job with no upload.
C27_ChatAfterEmails ==
    /\ (slack_uploads # <<>> \/ job_pc = "deliver_slack") =>
          /\ \A i \in DOMAIN email_sends : email_sends[i].ok
          /\ recipients # <<>> =>
                Len(email_sends) =
                    Len(GetEmailToAndBcc(recipients,
                                         schedule.deliver_as_group))
    /\ (\E i \in DOMAIN email_sends : ~email_sends[i].ok) =>
          /\ job_pc = "raised"
          /\ job_error = "SMTPException"
          /\ slack_uploads = <<>>

\* C27 witness: recipients and channel are both set, the second send raised
\* and the job has ended with nothing uploaded.
C27_Witness ==
    /\ recipients # <<>>
    /\ slack_channel # ""
    /\ Len(email_sends) = 2
    /\ email_sends[1].ok
    /\ ~email_sends[2].ok
    /\ job_pc = "raised"
    /\ slack_uploads = <<>>

\* the exceptions of the steps that obtain the artifact
ArtifactErrors ==
    {"WebDriverException", "NoSuchElementException", "Exception",
     "SoftTimeLimitExceeded", "URLError"}

\* C28: nothing is sent before the content is built; when the launch, the
\* navigation, the lookup, the screenshot with its whole-page fallback or
\* the fetch has failed, the job has ended with that error, no content, no
\* e-mail sent and nothing uploaded.
C28_NoArtifactNothingSent ==
    /\ report_content = NoContent
          => (email_sends = <<>> /\ slack_uploads = <<>>)
    /\ job_error \in ArtifactErrors
          => /\ job_pc = "raised"
             /\ report_content = NoContent
    /\ (pending # "" /\ job_pc \notin {"destroy_close", "destroy_quit"})
          => /\ job_pc = "raised"
             /\ job_error = pending
             /\ report_content = NoContent
    /\ (email_sends # <<>> \/ slack_uploads # <<>>)
          => \/ schedule.email_format = "data"
             \/ screenshot # "none"

\* C28 witness: the element screenshot is not supported and the whole-page
\* fallback raised; the job, with recipients and a channel, has ended with
\* that error after the client was destroyed.
C28_Witness ==
    /\ pending = "WebDriverException"
    /\ quit_calls = 1
    /\ recipients # <<>>
    /\ slack_channel # ""
    /\ job_pc = "raised"
    /\ job_error = "WebDriverException"
    /\ email_sends = <<>>
    /\ slack_uploads = <<>>

=============================================================================
